---- MODULE Spec2Model ----
(***************************************************************************)
(* Direct-file search and download proxy (app/downloader.py, app/search.py *)
(* and the /download route of app/main.py).                                *)
(*                                                                         *)
(* Strings are sequences of tokens.  A token is a run of characters that   *)
(* no operation of the program cuts through: the separators "/", "?", ".", *)
(* ";" and " " are tokens of their own, scheme names keep their colon      *)
(* ("https:"), so "https://h/a.pdf" is <<"https:","/","/","h","/","a",     *)
(* ".","pdf">>.  str.split, str.startswith, str.endswith, str.strip and    *)
(* str.lower are computed on these sequences as Python computes them.      *)
(***************************************************************************)
EXTENDS Integers, Sequences, FiniteSets, TLC

(***************************************************************************)
(* Bounds of the model.                                                    *)
(***************************************************************************)
NumInvocations == 2
MaxTail == 4
MaxChunks == 2
MaxHits == 2
MaxSuffix == 4
MaxLinks == 2
MaxCandidates == 2
MaxReply == 2

(***************************************************************************)
(* Python string primitives on token sequences.                            *)
(***************************************************************************)
Last(s) == s[Len(s)]

startswith(s, p) == Len(s) >= Len(p) /\ SubSeq(s, 1, Len(p)) = p

endswith(s, p) == Len(s) >= Len(p) /\ SubSeq(s, Len(s) - Len(p) + 1, Len(s)) = p

RECURSIVE split(_, _)
split(s, sep) ==
  IF s = <<>> THEN << <<>> >>
  ELSE LET rest == split(Tail(s), sep)
       IN  IF Head(s) = sep
           THEN << <<>> >> \o rest
           ELSE << <<Head(s)>> \o Head(rest) >> \o Tail(rest)

RECURSIVE lstrip(_, _)
lstrip(s, c) == IF s # <<>> /\ Head(s) = c THEN lstrip(Tail(s), c) ELSE s

RECURSIVE rstrip(_, _)
rstrip(s, c) ==
  IF s # <<>> /\ Last(s) = c THEN rstrip(SubSeq(s, 1, Len(s) - 1), c) ELSE s

strip(s, c) == rstrip(lstrip(s, c), c)

lowerToken(t) ==
  CASE t = "PDF" -> "pdf"
    [] t = "Text/Plain" -> "text/plain"
    [] t = "Application/PDF" -> "application/pdf"
    [] OTHER -> t

lower(s) == [i \in 1..Len(s) |-> lowerToken(s[i])]

(* Sequences over S of length at most n. *)
SeqUpTo(S, n) == UNION {[1..k -> S] : k \in 0..n}


(***************************************************************************)
(* State.  The download proxy keeps one record of these per invocation of  *)
(* the /download route; the candidate pipeline is one run of               *)
(* perform_search_and_extract.                                             *)
(***************************************************************************)
VARIABLES
  url,               \* download: the url argument of each invocation
  pc,                \* download: where each invocation stands
  session,           \* download: "none", "open" or "closed" (aiohttp.ClientSession)
  closes,            \* download: number of session.close() calls
  heads,             \* download: HEAD requests issued
  gets,              \* download: GET requests issued
  requested,         \* download: chunks the caller has asked for (__anext__ calls)
  pulled,            \* download: non-empty chunks read from upstream
  received,          \* download: chunks handed to the caller, in order
  body,              \* download: the chunks upstream has to send
  raised,            \* download: the exception the caller saw
  content_type,      \* download: media type of the response
  disposition_name,  \* download: file name of the Content-Disposition header
  started,           \* download: the body of iterator() has been entered
  abandoned,         \* download: the caller dropped the stream
  head_status,       \* download: status of the HEAD response (0: none yet)
  get_status         \* download: status of the GET response (0: none yet)

dvars == <<url, pc, session, closes, heads, gets, requested, pulled, received,
           body, raised, content_type, disposition_name, started, abandoned,
           head_status, get_status>>

(***************************************************************************)
(* The candidate pipeline: state of one run of perform_search_and_extract. *)
(***************************************************************************)
VARIABLES
  ppc,                \* pipeline: "idle", "start", "phaseA", "phaseB", "dedup", "returned", "raised"
  raw_results,        \* pipeline: the hits the search adapter returned
  search,             \* pipeline: "pending", "ok" or "failed" (the _search_web call)
  idx,                \* pipeline: index of the hit the current loop is at
  candidates,         \* pipeline: the candidates collected so far
  unique_candidates,  \* pipeline: the list returned
  preferred_extensions, \* pipeline: the allowlist argument of the run
  fetched,            \* history: what the page of each hit answered in Phase B
  probe_failed        \* history: for each candidate, whether its probe failed

pvars == <<ppc, search, raw_results, idx, candidates, unique_candidates, fetched,
           probe_failed, preferred_extensions>>

(***************************************************************************)
(* The helper functions called on their own: one call of each, its         *)
(* arguments and what it returned.                                         *)
(***************************************************************************)
VARIABLES
  c_url,     \* _is_direct_file_url: the url argument
  c_exts,    \* _is_direct_file_url: the preferred_extensions argument
  c_out,     \* _is_direct_file_url: the value returned
  c_done,    \* _is_direct_file_url: the call has returned
  e_page,    \* _extract_links_from_page: the url argument
  e_resp,    \* _extract_links_from_page: what the fetch of the page answers
  e_out,     \* _extract_links_from_page: the exception raised and the list returned
  e_done,    \* _extract_links_from_page: the call has ended
  r_in,      \* score_candidates_with_llm: the candidates argument
  r_llm,     \* score_candidates_with_llm: what the language model answers
  r_out,     \* score_candidates_with_llm: the list returned
  r_done     \* score_candidates_with_llm: the call has returned

cvars == <<c_url, c_exts, c_out, c_done>>

evars == <<e_page, e_resp, e_out, e_done>>

rvars == <<r_in, r_llm, r_out, r_done>>

uvars == <<cvars, evars, rvars>>

vars == <<dvars, pvars, uvars>>

Invocations == 1..NumInvocations

(***************************************************************************)
(* Inputs of the download proxy.                                           *)
(***************************************************************************)
SchemePrefixes ==
  { <<"https:", "/", "/">>, <<"http:", "/", "/">>, <<"ftp:", "/", "/">>, <<>> }

TailTokens == {"h", "/", "?"}

DownloadUrls == {p \o t : p \in SchemePrefixes, t \in SeqUpTo(TailTokens, MaxTail)}

Statuses == {200, 399, 400, 404}

NoHeader == [present |-> FALSE, value |-> <<>>]

ContentTypeHeaders ==
  { NoHeader,
    [present |-> TRUE, value |-> <<"Text/Plain", ";", " ", "charset=utf-8">>],
    [present |-> TRUE, value |-> <<" ">>] }

(***************************************************************************)
(* Exceptions.                                                             *)
(***************************************************************************)
NoError == [type |-> "none", status |-> 0]

HTTPException(status) == [type |-> "HTTPException", status |-> status]

NetworkError == [type |-> "Exception", status |-> 0]

CancelledError == [type |-> "CancelledError", status |-> 0]

(* except Exception: CancelledError derives from BaseException, not Exception. *)
except_Exception(e) == e.type \in {"HTTPException", "Exception"}

(* What requests.get and BeautifulSoup raise: subclasses of Exception. *)
Timeout == [type |-> "Timeout", status |-> 0]

ConnectionError == [type |-> "ConnectionError", status |-> 0]

ParseError == [type |-> "ParseError", status |-> 0]

(* The /download route: HTTPException passes, any other Exception becomes 500. *)
download(e) ==
  IF e.type = "HTTPException" THEN e
  ELSE IF e.type = "Exception" THEN HTTPException(500)
  ELSE e

(***************************************************************************)
(* stream_file_download, the pieces of it that compute.                    *)
(***************************************************************************)
any_scheme(u) == Len(u) >= 3 /\ u[2] = "/" /\ u[3] = "/"

valid_scheme(u) ==
  startswith(u, <<"http:", "/", "/">>) \/ startswith(u, <<"https:", "/", "/">>)

above_400(status) == status > 400

head_failed(status) == status >= 400

server_error(status) == status >= 500

get_failed(status) == status >= 400

OctetStream == <<"application/octet-stream">>

derive_content_type(h) ==
  LET v == IF h.present THEN h.value ELSE OctetStream
  IN  lower(strip(split(v, ";")[1], " "))

media_type(ct) == IF ct # <<>> THEN ct ELSE OctetStream

derive_disposition_name(u) ==
  LET n == split(Last(split(u, "/")), "?")[1]
  IN  IF n # <<>> THEN n ELSE <<"download">>

(* The finally clause of iterator() runs only if iterator()'s body was entered. *)
finally_never(s) == FALSE

iterator_finally(s) == s

(***************************************************************************)
(* Initial states of the download proxy: invocation 1 is called with any   *)
(* url, the other invocations are not called.                              *)
(***************************************************************************)
Fresh ==
  /\ session = [d \in Invocations |-> "none"]
  /\ closes = [d \in Invocations |-> 0]
  /\ heads = [d \in Invocations |-> 0]
  /\ gets = [d \in Invocations |-> 0]
  /\ requested = [d \in Invocations |-> 0]
  /\ pulled = [d \in Invocations |-> 0]
  /\ received = [d \in Invocations |-> <<>>]
  /\ body = [d \in Invocations |-> <<>>]
  /\ raised = [d \in Invocations |-> NoError]
  /\ content_type = [d \in Invocations |-> <<>>]
  /\ disposition_name = [d \in Invocations |-> <<>>]
  /\ started = [d \in Invocations |-> FALSE]
  /\ abandoned = [d \in Invocations |-> FALSE]
  /\ head_status = [d \in Invocations |-> 0]
  /\ get_status = [d \in Invocations |-> 0]

InitDownload ==
  /\ url \in {[d \in Invocations |-> IF d = 1 THEN u ELSE <<>>] : u \in DownloadUrls}
  /\ pc = [d \in Invocations |-> IF d = 1 THEN "Validating" ELSE "NotCalled"]
  /\ Fresh

NoDownload ==
  /\ url = [d \in Invocations |-> <<>>]
  /\ pc = [d \in Invocations |-> "NotCalled"]
  /\ Fresh

(***************************************************************************)
(* The download proxy, one action per stretch of code between two awaits.  *)
(***************************************************************************)
Streaming(d) == pc[d] \in {"AwaitGet", "AwaitRead", "AtYield"}

(* One session shared by all invocations: closing it closes it for all. *)
close_shared(d) ==
  /\ session' = [e \in Invocations |-> "closed"]
  /\ closes' = [closes EXCEPT ![d] = @ + 1]

(* session.close() *)
Close(d) ==
  /\ session' = [session EXCEPT ![d] = "closed"]
  /\ closes' = [closes EXCEPT ![d] = @ + 1]

(* An exception e leaves the try block of stream_file_download. *)
ProbeRaises(d, e) ==
  /\ IF except_Exception(e)
     THEN Close(d)
     ELSE UNCHANGED <<session, closes>>
  /\ raised' = [raised EXCEPT ![d] = download(e)]
  /\ pc' = [pc EXCEPT ![d] = "Done"]

(* An exception e leaves _stream_content and passes through iterator(). *)
StreamRaises(d, e) ==
  /\ Close(d)
  /\ raised' = [raised EXCEPT ![d] = e]
  /\ pc' = [pc EXCEPT ![d] = "Done"]

(* stream_file_download up to its first await: the scheme check, the new
   session and the HEAD request. *)
Validate(d) ==
  /\ pc[d] = "Validating"
  /\ IF ~valid_scheme(url[d])
     THEN /\ raised' = [raised EXCEPT ![d] = download(HTTPException(400))]
          /\ pc' = [pc EXCEPT ![d] = "Done"]
          /\ UNCHANGED <<session, heads>>
     ELSE /\ session' = [session EXCEPT ![d] = "open"]
          /\ heads' = [heads EXCEPT ![d] = @ + 1]
          /\ pc' = [pc EXCEPT ![d] = "ProbingMetadata"]
          /\ UNCHANGED raised
  /\ UNCHANGED <<url, closes, gets, requested, pulled, received, body,
                 content_type, disposition_name, started, abandoned>>
  /\ UNCHANGED pvars
  /\ UNCHANGED uvars
  /\ UNCHANGED <<head_status, get_status>>

(* The HEAD response arrives: status check, content type, file name, and the
   StreamingResponse is returned with iterator() not yet entered. *)
ProbeResponse(d, status, header) ==
  /\ pc[d] = "ProbingMetadata"
  /\ IF head_failed(status)
     THEN /\ ProbeRaises(d, HTTPException(status))
          /\ UNCHANGED <<content_type, disposition_name>>
     ELSE /\ content_type' = [content_type EXCEPT ![d] = media_type(derive_content_type(header))]
          /\ disposition_name' = [disposition_name EXCEPT ![d] = derive_disposition_name(url[d])]
          /\ pc' = [pc EXCEPT ![d] = "Returned"]
          /\ UNCHANGED <<session, closes, raised>>
  /\ UNCHANGED <<url, heads, gets, requested, pulled, received, body, started, abandoned>>
  /\ UNCHANGED pvars
  /\ UNCHANGED uvars
  /\ head_status' = [head_status EXCEPT ![d] = status]
  /\ UNCHANGED get_status

(* The HEAD request fails (timeout, connection error) or the task is cancelled
   while it waits for the response. *)
ProbeError(d, e) ==
  /\ pc[d] = "ProbingMetadata"
  /\ ProbeRaises(d, e)
  /\ UNCHANGED <<url, heads, gets, requested, pulled, received, body,
                 content_type, disposition_name, started, abandoned>>
  /\ UNCHANGED pvars
  /\ UNCHANGED uvars
  /\ UNCHANGED <<head_status, get_status>>

(* The caller asks for the next chunk.  The first request enters iterator()
   and _stream_content, which issues the GET; a later one resumes them at
   their yield, and _stream_content calls resp.content.read. *)
Pull(d) ==
  /\ pc[d] \in {"Returned", "AtYield"}
  /\ requested' = [requested EXCEPT ![d] = @ + 1]
  /\ IF pc[d] = "Returned"
     THEN /\ started' = [started EXCEPT ![d] = TRUE]
          /\ gets' = [gets EXCEPT ![d] = @ + 1]
          /\ pc' = [pc EXCEPT ![d] = "AwaitGet"]
     ELSE /\ pc' = [pc EXCEPT ![d] = "AwaitRead"]
          /\ UNCHANGED <<started, gets>>
  /\ UNCHANGED <<url, session, closes, heads, pulled, received, body, raised,
                 content_type, disposition_name, abandoned>>
  /\ UNCHANGED pvars
  /\ UNCHANGED uvars
  /\ UNCHANGED <<head_status, get_status>>

(* The GET response arrives, with n chunks of body to come. *)
GetResponse(d, status, n) ==
  /\ pc[d] = "AwaitGet"
  /\ IF get_failed(status)
     THEN /\ StreamRaises(d, HTTPException(status))
          /\ UNCHANGED body
     ELSE /\ body' = [body EXCEPT ![d] = [i \in 1..n |-> i]]
          /\ pc' = [pc EXCEPT ![d] = "AwaitRead"]
          /\ UNCHANGED <<session, closes, raised>>
  /\ UNCHANGED <<url, heads, gets, requested, pulled, received,
                 content_type, disposition_name, started, abandoned>>
  /\ UNCHANGED pvars
  /\ UNCHANGED uvars
  /\ get_status' = [get_status EXCEPT ![d] = status]
  /\ UNCHANGED head_status

(* A download that reads the whole body before it yields the first chunk. *)
ReadBuffered(d) ==
  /\ pc[d] = "AwaitRead"
  /\ IF pulled[d] < Len(body[d])
     THEN /\ pulled' = [pulled EXCEPT ![d] = Len(body[d])]
          /\ received' = [received EXCEPT ![d] = Append(@, body[d][pulled[d] + 1])]
          /\ pc' = [pc EXCEPT ![d] = "AtYield"]
          /\ UNCHANGED <<session, closes>>
     ELSE /\ Close(d)
          /\ pc' = [pc EXCEPT ![d] = "Done"]
          /\ UNCHANGED <<pulled, received>>
  /\ UNCHANGED <<url, heads, gets, requested, body, raised,
                 content_type, disposition_name, started, abandoned>>
  /\ UNCHANGED pvars
  /\ UNCHANGED uvars
  /\ UNCHANGED <<head_status, get_status>>

(* resp.content.read returns: a chunk is yielded to the caller, or the empty
   chunk ends the loop, the generators finish and the finally clause runs. *)
ReadComplete(d) ==
  /\ pc[d] = "AwaitRead"
  /\ IF pulled[d] < Len(body[d])
     THEN /\ pulled' = [pulled EXCEPT ![d] = @ + 1]
          /\ received' = [received EXCEPT ![d] = Append(@, body[d][pulled[d] + 1])]
          /\ pc' = [pc EXCEPT ![d] = "AtYield"]
          /\ UNCHANGED <<session, closes>>
     ELSE /\ Close(d)
          /\ pc' = [pc EXCEPT ![d] = "Done"]
          /\ UNCHANGED <<pulled, received>>
  /\ UNCHANGED <<url, heads, gets, requested, body, raised,
                 content_type, disposition_name, started, abandoned>>
  /\ UNCHANGED pvars
  /\ UNCHANGED uvars
  /\ UNCHANGED <<head_status, get_status>>

(* The GET or a read fails (timeout, connection reset). *)
StreamError(d) ==
  /\ pc[d] \in {"AwaitGet", "AwaitRead"}
  /\ StreamRaises(d, NetworkError)
  /\ UNCHANGED <<url, heads, gets, requested, pulled, received, body,
                 content_type, disposition_name, started, abandoned>>
  /\ UNCHANGED pvars
  /\ UNCHANGED uvars
  /\ UNCHANGED <<head_status, get_status>>

(* The caller drops the stream: before the first chunk was asked for, between
   two chunks, or (by cancelling its task) while a chunk is awaited. *)
Abandon(d) ==
  /\ pc[d] \in {"Returned", "AwaitGet", "AwaitRead", "AtYield"}
  /\ abandoned' = [abandoned EXCEPT ![d] = TRUE]
  /\ raised' = [raised EXCEPT ![d] =
                  IF pc[d] \in {"AwaitGet", "AwaitRead"} THEN CancelledError ELSE @]
  /\ pc' = [pc EXCEPT ![d] = "Abandoned"]
  /\ UNCHANGED <<url, session, closes, heads, gets, requested, pulled, received,
                 body, content_type, disposition_name, started>>
  /\ UNCHANGED pvars
  /\ UNCHANGED uvars
  /\ UNCHANGED <<head_status, get_status>>

(* The event loop unwinds the dropped generator (aclose, or the cancellation
   reaching its await): the finally clause of iterator() runs if its body was
   ever entered. *)
Finalize(d) ==
  /\ pc[d] = "Abandoned"
  /\ IF iterator_finally(started[d])
     THEN Close(d)
     ELSE UNCHANGED <<session, closes>>
  /\ pc' = [pc EXCEPT ![d] = "Done"]
  /\ UNCHANGED <<url, heads, gets, requested, pulled, received, body, raised,
                 content_type, disposition_name, started, abandoned>>
  /\ UNCHANGED pvars
  /\ UNCHANGED uvars
  /\ UNCHANGED <<head_status, get_status>>

NextDownload ==
  \E d \in Invocations :
    \/ Validate(d)
    \/ \E status \in Statuses, header \in ContentTypeHeaders : ProbeResponse(d, status, header)
    \/ \E e \in {NetworkError, CancelledError} : ProbeError(d, e)
    \/ Pull(d)
    \/ \E status \in Statuses, n \in 0..MaxChunks : GetResponse(d, status, n)
    \/ ReadComplete(d)
    \/ StreamError(d)
    \/ Abandon(d)
    \/ Finalize(d)

(***************************************************************************)
(* The web the pipeline runs against.                                      *)
(***************************************************************************)
U_a == <<"https:", "/", "/", "h", "/", "a", ".", "pdf">>

U_page == <<"http:", "/", "/", "h", "/", "p">>

U_ftp == <<"ftp:", "/", "/", "h", "/", "a", ".", "pdf">>

Hits ==
  { [title |-> "A", href |-> U_a],
    [title |-> "P", href |-> U_page],
    [title |-> "F", href |-> U_ftp],
    [title |-> "E", href |-> <<>>] }

L_root == <<"/", "a", ".", "pdf">>

L_srel == <<"/", "/", "h", "/", "c", ".", "pdf">>

L_rel == <<"c", ".", "pdf">>

U_d == <<"https:", "/", "/", "h", "/", "d", ".", "zip">>

(* The href attributes of the anchors of a page, in document order. *)
PageBodies ==
  { <<>>,
    <<L_root, L_rel, U_page>>,
    <<L_srel, U_a, U_d>> }

MaxAnchors == CHOOSE n \in {Len(b) : b \in PageBodies} : \A b \in PageBodies : Len(b) <= n

PageResponses ==
  {[kind |-> "ok", links |-> b] : b \in PageBodies}
    \cup { [kind |-> "http_error", links |-> <<U_a>>],
           [kind |-> "timeout", links |-> <<>>],
           [kind |-> "parse_error", links |-> <<>>] }

ProbeResponses ==
  { [kind |-> "ok", header |-> <<"Application/PDF", ";", " ", "charset=utf-8">>],
    [kind |-> "no_header", header |-> <<>>],
    [kind |-> "timeout", header |-> <<>>] }

ProbeFails(o) == o.kind # "ok"

(* The allowlists a run is given: the caller's, or a head of the default list. *)
AllowLists == { << <<"pdf">> >>, << <<"pdf">>, <<"zip">> >> }

(***************************************************************************)
(* search.py, the functions of it.                                         *)
(***************************************************************************)
ALLOWED_SCHEMES == { <<"http:", "/", "/">>, <<"https:", "/", "/">> }

every_scheme(u) == TRUE

allowed_scheme(u) == \E p \in ALLOWED_SCHEMES : startswith(u, p)

_is_direct_file_url(u, exts) ==
  /\ u # <<>>
  /\ allowed_scheme(u)
  /\ LET lowered == lower(split(u, "?")[1])
     IN  \E k \in 1..Len(exts) : endswith(lowered, <<".">> \o strip(exts[k], "."))

None == [some |-> FALSE, value |-> <<>>]

Some(v) == [some |-> TRUE, value |-> v]

(* x or "" *)
or_empty(x) == IF x.some THEN x.value ELSE <<>>

head_unknown(o) ==
  IF o.kind = "ok" THEN Some(lower(strip(split(o.header, ";")[1], " ")))
  ELSE Some(<<"unknown">>)

_head_content_type(o) ==
  IF o.kind = "timeout" THEN None
  ELSE IF o.kind = "ok" /\ o.header # <<>>
       THEN Some(lower(strip(split(o.header, ";")[1], " ")))
       ELSE None

(* urljoin(page, href) for an href that starts with one "/": the scheme and
   host of the page, then the href. *)
RECURSIVE hostOf(_)
hostOf(s) ==
  IF s = <<>> \/ Head(s) \in {"/", "?"} THEN <<>> ELSE <<Head(s)>> \o hostOf(Tail(s))

urljoin(page, href) == SubSeq(page, 1, 3) \o hostOf(SubSeq(page, 4, Len(page))) \o href

RECURSIVE absolute_links(_, _)
absolute_links(page, links) ==
  IF links = <<>> THEN <<>>
  ELSE LET href == Head(links)
           rest == absolute_links(page, Tail(links))
       IN  IF startswith(href, <<"http:", "/", "/">>) \/ startswith(href, <<"https:", "/", "/">>)
           THEN <<href>> \o rest
           ELSE IF startswith(href, <<"/", "/">>)
           THEN << <<"https:">> \o href >> \o rest
           ELSE IF startswith(href, <<"/">>)
           THEN <<urljoin(page, href)>> \o rest
           ELSE rest

extract_ignoring_status(page, resp) == absolute_links(page, resp.links)

(* The try block of _extract_links_from_page: the exception that leaves it, if
   one does, and the list it returns otherwise. *)
extract_try(page, resp) ==
  CASE resp.kind = "timeout" -> [raised |-> Timeout, links |-> <<>>]
    [] resp.kind = "connect_error" -> [raised |-> ConnectionError, links |-> <<>>]
    [] resp.kind = "parse_error" -> [raised |-> ParseError, links |-> <<>>]
    [] resp.kind = "ok" -> [raised |-> NoError, links |-> absolute_links(page, resp.links)]
    [] OTHER -> [raised |-> NoError, links |-> <<>>]

except_Timeout(e) == e.type = "Timeout"

(* except Exception, of _extract_links_from_page. *)
extract_except(e) == e.type \in {"Timeout", "ConnectionError", "ParseError", "Exception"}

(* One call of _extract_links_from_page, as its caller sees it. *)
extract_call(page, resp) ==
  LET t == extract_try(page, resp)
  IN  IF t.raised # NoError /\ extract_except(t.raised)
      THEN [raised |-> NoError, links |-> <<>>]
      ELSE t

_extract_links_from_page(page, resp) == extract_call(page, resp).links

Candidate(title, source_page, direct_url, reason, ctype) ==
  [title |-> title, source_page |-> source_page, direct_url |-> direct_url,
   reason |-> reason, content_type |-> ctype]

(* The deduplication loop: seen is the set of direct_url values kept so far. *)
RECURSIVE dedup_loop(_, _)
dedup_loop(cs, seen) ==
  IF cs = <<>> THEN <<>>
  ELSE LET c == Head(cs)
       IN  IF c.direct_url = <<>> \/ c.direct_url \in seen
           THEN dedup_loop(Tail(cs), seen)
           ELSE <<c>> \o dedup_loop(Tail(cs), seen \cup {c.direct_url})

dedup_keep_all(cs) == cs

RECURSIVE reversed(_)
reversed(s) == IF s = <<>> THEN <<>> ELSE Append(reversed(Tail(s)), Head(s))

dedup_keep_last(cs) == reversed(dedup_loop(reversed(cs), {}))

deduplicate(cs) == dedup_loop(cs, {})


(***************************************************************************)
(* perform_search_and_extract, one action per network call of a loop.      *)
(***************************************************************************)
NoClassify ==
  /\ c_url = <<>>
  /\ c_exts = <<>>
  /\ c_out = FALSE
  /\ c_done = FALSE

NoExtract ==
  /\ e_page = <<>>
  /\ e_resp = [kind |-> "skipped", links |-> <<>>]
  /\ e_out = [raised |-> NoError, links |-> <<>>]
  /\ e_done = FALSE

NoRank ==
  /\ r_in = <<>>
  /\ r_llm = [kind |-> "no_client", ranked |-> <<>>]
  /\ r_out = <<>>
  /\ r_done = FALSE

NoCalls == NoClassify /\ NoExtract /\ NoRank

NoPipeline ==
  /\ ppc = "idle"
  /\ search = "pending"
  /\ raw_results = <<>>
  /\ idx = 1
  /\ candidates = <<>>
  /\ unique_candidates = <<>>
  /\ fetched = <<>>
  /\ probe_failed = <<>>
  /\ preferred_extensions = <<>>

InitPipeline ==
  /\ ppc = "start"
  /\ preferred_extensions \in AllowLists
  /\ search = "pending"
  /\ raw_results = <<>>
  /\ idx = 1
  /\ candidates = <<>>
  /\ unique_candidates = <<>>
  /\ fetched = <<>>
  /\ probe_failed = <<>>

(* _search_web returns the hits of the backend. *)
SearchReturns(hits) ==
  /\ ppc = "start"
  /\ raw_results' = hits
  /\ ppc' = "phaseA"
  /\ UNCHANGED <<idx, candidates, unique_candidates, fetched, probe_failed>>
  /\ UNCHANGED dvars
  /\ UNCHANGED <<preferred_extensions, uvars>>
  /\ search' = "ok"

(* _search_web raises (backend error, timeout): nothing in
   perform_search_and_extract catches it. *)
SearchRaises ==
  /\ ppc = "start"
  /\ ppc' = "raised"
  /\ UNCHANGED <<raw_results, idx, candidates, unique_candidates, fetched, probe_failed>>
  /\ UNCHANGED dvars
  /\ UNCHANGED <<preferred_extensions, uvars>>
  /\ search' = "failed"

(* A first loop that passes over every hit without making a candidate of it. *)
PhaseA_pass(probe) ==
  /\ ppc = "phaseA"
  /\ idx <= Len(raw_results)
  /\ probe = CHOOSE o \in ProbeResponses : TRUE
  /\ idx' = idx + 1
  /\ UNCHANGED <<ppc, raw_results, candidates, probe_failed, unique_candidates, fetched>>
  /\ UNCHANGED dvars
  /\ UNCHANGED <<preferred_extensions, uvars>>
  /\ UNCHANGED search

(* 1) one hit of the first loop; probe answers the HEAD request, if one is made. *)
PhaseA(probe) ==
  /\ ppc = "phaseA"
  /\ idx <= Len(raw_results)
  /\ LET r == raw_results[idx]
     IN  IF _is_direct_file_url(r.href, preferred_extensions)
         THEN /\ candidates' = Append(candidates,
                   Candidate(r.title, r.href, r.href, "Matched by extension",
                             or_empty(_head_content_type(probe))))
              /\ probe_failed' = Append(probe_failed, ProbeFails(probe))
         ELSE /\ probe = CHOOSE o \in ProbeResponses : TRUE
              /\ UNCHANGED <<candidates, probe_failed>>
  /\ idx' = idx + 1
  /\ UNCHANGED <<ppc, raw_results, unique_candidates, fetched>>
  /\ UNCHANGED dvars
  /\ UNCHANGED <<preferred_extensions, uvars>>
  /\ UNCHANGED search

PhaseAEnds ==
  /\ ppc = "phaseA"
  /\ idx > Len(raw_results)
  /\ ppc' = "phaseB"
  /\ idx' = 1
  /\ UNCHANGED <<raw_results, candidates, unique_candidates, fetched, probe_failed>>
  /\ UNCHANGED dvars
  /\ UNCHANGED <<preferred_extensions, uvars>>
  /\ UNCHANGED search

(* The second loop written as a copy of the first: the link as its own page. *)
page_candidates_as_hits(r, links, probes) ==
  LET direct == SelectSeq(links, LAMBDA l : _is_direct_file_url(l, preferred_extensions))
  IN  [k \in 1..Len(direct) |->
         Candidate(r.title, direct[k], direct[k], "Found on page",
                   or_empty(_head_content_type(probes[k])))]

(* The candidates one hit adds in the second loop, given the links of its page
   and the answers to their probes. *)
page_candidates(r, links, probes) ==
  LET direct == SelectSeq(links, LAMBDA l : _is_direct_file_url(l, preferred_extensions))
  IN  [k \in 1..Len(direct) |->
         Candidate(r.title, r.href, direct[k], "Found on page",
                   or_empty(_head_content_type(probes[k])))]

NumDirect(links) ==
  Len(SelectSeq(links, LAMBDA l : _is_direct_file_url(l, preferred_extensions)))

(* 2) one hit of the second loop; resp answers the GET of its page, probes the
   HEAD requests of the links found on it. *)
PhaseB(resp, probes) ==
  /\ ppc = "phaseB"
  /\ idx <= Len(raw_results)
  /\ LET r == raw_results[idx]
     IN  IF r.href = <<>> \/ ~allowed_scheme(r.href)
         THEN /\ resp = [kind |-> "skipped", links |-> <<>>]
              /\ probes = <<>>
              /\ UNCHANGED <<candidates, probe_failed>>
         ELSE LET links == _extract_links_from_page(r.href, resp)
              IN  /\ resp \in PageResponses
                  /\ Len(probes) = NumDirect(links)
                  /\ candidates' = candidates \o page_candidates(r, links, probes)
                  /\ probe_failed' = probe_failed \o
                                       [k \in 1..Len(probes) |-> ProbeFails(probes[k])]
  /\ fetched' = Append(fetched, resp)
  /\ idx' = idx + 1
  /\ UNCHANGED <<ppc, raw_results, unique_candidates>>
  /\ UNCHANGED dvars
  /\ UNCHANGED <<preferred_extensions, uvars>>
  /\ UNCHANGED search

PhaseBEnds ==
  /\ ppc = "phaseB"
  /\ idx > Len(raw_results)
  /\ ppc' = "dedup"
  /\ UNCHANGED <<raw_results, idx, candidates, unique_candidates, fetched, probe_failed>>
  /\ UNCHANGED dvars
  /\ UNCHANGED <<preferred_extensions, uvars>>
  /\ UNCHANGED search

(* Deduplicate by direct_url and return. *)
Deduplicate ==
  /\ ppc = "dedup"
  /\ unique_candidates' = deduplicate(candidates)
  /\ ppc' = "returned"
  /\ UNCHANGED <<raw_results, idx, candidates, fetched, probe_failed>>
  /\ UNCHANGED dvars
  /\ UNCHANGED <<preferred_extensions, uvars>>
  /\ UNCHANGED search

NextPipeline ==
  \/ \E hits \in SeqUpTo(Hits, MaxHits) : SearchReturns(hits)
  \/ SearchRaises
  \/ \E probe \in ProbeResponses : PhaseA(probe)
  \/ PhaseAEnds
  \/ \E resp \in PageResponses \cup {[kind |-> "skipped", links |-> <<>>]},
        probes \in SeqUpTo(ProbeResponses, MaxAnchors) :
          PhaseB(resp, probes)
  \/ PhaseBEnds
  \/ Deduplicate

(***************************************************************************)
(* Specifications.                                                         *)
(***************************************************************************)
InitD == InitDownload /\ NoPipeline /\ NoCalls

SpecDownload == InitD /\ [][NextDownload]_vars

(* The event loop runs every finalizer it has scheduled. *)
SpecDownloadFair == SpecDownload /\ \A d \in Invocations : WF_vars(Finalize(d))

(***************************************************************************)
(* Concurrent invocations of the /download route: every invocation has     *)
(* been called, and the event loop interleaves their steps.                *)
(***************************************************************************)
ConcurrentUrls == { <<"https:", "/", "/", "h">>, <<"ftp:", "/", "/", "h">> }

ConcurrentStatuses == {200, 404}

InitConcurrent ==
  /\ url \in [Invocations -> ConcurrentUrls]
  /\ pc = [d \in Invocations |-> "Validating"]
  /\ Fresh
  /\ NoPipeline
  /\ NoCalls

NextConcurrent ==
  \E d \in Invocations :
    \/ Validate(d)
    \/ \E status \in ConcurrentStatuses : ProbeResponse(d, status, NoHeader)
    \/ \E e \in {NetworkError, CancelledError} : ProbeError(d, e)
    \/ Pull(d)
    \/ \E status \in ConcurrentStatuses : GetResponse(d, status, 1)
    \/ ReadComplete(d)
    \/ StreamError(d)
    \/ Abandon(d)
    \/ Finalize(d)

SpecConcurrent == InitConcurrent /\ [][NextConcurrent]_vars

InitP == NoDownload /\ InitPipeline /\ NoCalls

SpecPipeline == InitP /\ [][NextPipeline]_vars

(***************************************************************************)
(* One call of _is_direct_file_url.                                        *)
(***************************************************************************)
(* What precedes the host in a url, if anything does. *)
UrlPrefixes ==
  { <<"https:", "/", "/">>, <<"http:", "/", "/">>, <<"ftp:", "/", "/">>,
    <<"/", "/">>, <<"/">>, <<>> }

UrlTokens == {"h", "/", ".", "pdf", "PDF", "?"}

ClassifierUrls == {p \o t : p \in UrlPrefixes, t \in SeqUpTo(UrlTokens, MaxSuffix)}

(* Allowlists: the entries "pdf", "PDF", ".pdf", and lists of none and two. *)
ClassifierAllowLists ==
  { << <<"pdf">> >>, << <<"PDF">> >>, << <<".", "pdf">> >>, <<>>,
    << <<"zip">>, <<"pdf">> >> }

InitC ==
  /\ NoDownload
  /\ NoPipeline
  /\ NoExtract
  /\ NoRank
  /\ c_url \in ClassifierUrls
  /\ c_exts \in ClassifierAllowLists
  /\ c_out = FALSE
  /\ c_done = FALSE

Classify ==
  /\ ~c_done
  /\ c_out' = _is_direct_file_url(c_url, c_exts)
  /\ c_done' = TRUE
  /\ UNCHANGED <<c_url, c_exts>>
  /\ UNCHANGED <<dvars, pvars, evars, rvars>>

NextClassifier == Classify

SpecClassifier == InitC /\ [][NextClassifier]_vars

(***************************************************************************)
(* One call of _extract_links_from_page.                                   *)
(***************************************************************************)
(* The href attributes a page may hold. *)
Anchors == {U_a, U_d, U_page, L_root, L_srel, L_rel}

(* What the fetch of a page answers: the page, an error status, or a failure
   to connect, to answer in time or to parse; links is what the page holds. *)
ExtractorResponses ==
  {[kind |-> k, links |-> b] :
     k \in {"ok", "http_error", "timeout", "connect_error", "parse_error"},
     b \in SeqUpTo(Anchors, MaxLinks)}

InitE ==
  /\ NoDownload
  /\ NoPipeline
  /\ NoClassify
  /\ NoRank
  /\ e_page \in {U_a, U_page}
  /\ e_resp \in ExtractorResponses
  /\ e_out = [raised |-> NoError, links |-> <<>>]
  /\ e_done = FALSE

Extract ==
  /\ ~e_done
  /\ e_out' = extract_call(e_page, e_resp)
  /\ e_done' = TRUE
  /\ UNCHANGED <<e_page, e_resp>>
  /\ UNCHANGED <<dvars, pvars, cvars, rvars>>

NextExtractor == Extract

SpecExtractor == InitE /\ [][NextExtractor]_vars

(***************************************************************************)
(* llm.py: one call of score_candidates_with_llm.                          *)
(***************************************************************************)
FallbackLimit == 20

RankedLimit == 50

(* s[:n] *)
Take(s, n) == SubSeq(s, 1, IF Len(s) < n THEN Len(s) ELSE n)

(* The k-th candidate of a deduplicated pipeline output: https://h/x..x, k times x. *)
FileUrl(k) == <<"https:", "/", "/", "h", "/">> \o [i \in 1..k |-> "x"]

Ranked(k) == Candidate("T", FileUrl(k), FileUrl(k), "Matched by extension", <<>>)

CandidateLists ==
  {[k \in 1..n |-> Ranked(k)] : n \in (0..MaxCandidates) \cup {FallbackLimit + 1}}

(* The items of a JSON array the model may answer: candidates of the prompt,
   a record of a url that was not in the prompt, a record without fields. *)
ReplyItems ==
  { Ranked(1), Ranked(2),
    Candidate("T", U_d, U_d, "Matched by extension", <<>>),
    [direct_url |-> FileUrl(1)] }

(* What the model answers: no API key is configured, the API call raises,
   the content is not JSON, is JSON but no array, or is an array. *)
LlmReplies ==
  {[kind |-> k, ranked |-> <<>>] : k \in {"no_client", "api_error", "not_json", "not_list"}}
    \cup {[kind |-> "list", ranked |-> a] : a \in SeqUpTo(ReplyItems, MaxReply)}

score_candidates_with_llm(cs, reply) ==
  IF reply.kind = "no_client" THEN Take(cs, FallbackLimit)
  ELSE IF reply.kind = "list" /\ reply.ranked # <<>> THEN Take(reply.ranked, RankedLimit)
  ELSE Take(cs, FallbackLimit)

InitR ==
  /\ NoDownload
  /\ NoPipeline
  /\ NoClassify
  /\ NoExtract
  /\ r_in \in CandidateLists
  /\ r_llm \in LlmReplies
  /\ r_out = <<>>
  /\ r_done = FALSE

Rank ==
  /\ ~r_done
  /\ r_out' = score_candidates_with_llm(r_in, r_llm)
  /\ r_done' = TRUE
  /\ UNCHANGED <<r_in, r_llm>>
  /\ UNCHANGED <<dvars, pvars, cvars, evars>>

NextRanking == Rank

SpecRanking == InitR /\ [][NextRanking]_vars


(***************************************************************************)
(* Properties of the download proxy.                                       *)
(***************************************************************************)
Called(d) == pc[d] # "NotCalled"

(* The scheme of a url, as the url states it: its first token, when that
   token is a scheme name. *)
HttpScheme(u) == u # <<>> /\ Head(u) \in {"http:", "https:"}

(* C1: on every exit path of a download invocation the session that was
   opened has been released exactly once: when the invocation is over, a
   session that was opened has seen exactly one close. *)
C1_ReleasedExactlyOnce ==
  \A d \in Invocations :
    (pc[d] = "Done" /\ session[d] # "none") => (session[d] = "closed" /\ closes[d] = 1)

(* C2: once the caller has abandoned the stream after receiving one chunk,
   the session is eventually released, no further chunk is pulled and no
   further request is issued, and the caller sees no exception other than
   the cancellation of its own task. *)
AbandonedAfterOne(d) == abandoned[d] /\ Len(received[d]) = 1

C2_AbandonAfterOneChunk ==
  /\ \A d \in Invocations :
       AbandonedAfterOne(d) ~> (session[d] = "closed" /\ closes[d] = 1)
  /\ [][\A d \in Invocations :
          AbandonedAfterOne(d) => /\ pulled'[d] = pulled[d]
                                  /\ received'[d] = received[d]
                                  /\ gets'[d] = gets[d]]_vars
  /\ [](\A d \in Invocations :
          AbandonedAfterOne(d) => raised[d] \in {NoError, CancelledError})

C2_Witness ==
  \E d \in Invocations :
    AbandonedAfterOne(d) /\ pc[d] = "Done" /\ session[d] = "closed" /\ raised[d] = NoError

(* C6: when the HEAD probe answers a status >= 400 the download fails with
   an HTTPException of that very status, no GET is ever issued, the stream
   is never entered and the session is closed. *)
C6_ProbeErrorStatus ==
  \A d \in Invocations :
    head_status[d] >= 400 =>
      /\ raised[d] = HTTPException(head_status[d])
      /\ pc[d] = "Done"
      /\ gets[d] = 0 /\ requested[d] = 0 /\ ~started[d]
      /\ session[d] = "closed" /\ closes[d] = 1

C6_Witness == \E d \in Invocations : head_status[d] = 404 /\ pc[d] = "Done"

(* C7: an invocation whose url does not have the scheme http or https is
   rejected by its first step with HTTPException 400: no session is opened,
   no HEAD and no GET is issued. *)
C7_InvalidSchemeRejected ==
  \A d \in Invocations :
    (Called(d) /\ ~HttpScheme(url[d]) /\ pc[d] # "Validating") =>
      /\ raised[d] = HTTPException(400)
      /\ pc[d] = "Done"
      /\ session[d] = "none" /\ closes[d] = 0
      /\ heads[d] = 0 /\ gets[d] = 0

C7_Witness ==
  \E d \in Invocations :
    /\ pc[d] = "Done"
    /\ startswith(url[d], <<"ftp:", "/", "/", "h">>)
    /\ raised[d] = HTTPException(400)

(* The last segment of the path of an http(s) url, the query string removed:
   after "scheme://" comes the host, up to the first "/" or "?"; the path runs
   from there to the first "?". *)
LastPathSegment(u) ==
  LET noquery == split(SubSeq(u, 4, Len(u)), "?")[1]
      segments == split(noquery, "/")
  IN  IF Len(segments) = 1 THEN <<>> ELSE Last(segments)

ExpectedDispositionName(u) ==
  IF LastPathSegment(u) = <<>> THEN <<"download">> ELSE LastPathSegment(u)

(* C10: for every url the proxy accepts, disposition_name is the last path
   segment of the url with the query string removed, or "download" when that
   segment is empty, whatever the query string contains. *)
C10_DispositionName ==
  \A d \in Invocations :
    (head_status[d] # 0 /\ head_status[d] < 400) =>
      disposition_name[d] = ExpectedDispositionName(url[d])


(***************************************************************************)
(* Properties of the candidate pipeline.                                   *)
(***************************************************************************)
Matched == "Matched by extension"

Found == "Found on page"

(* The members of cs whose direct_url no earlier member has, in the order of cs. *)
RECURSIVE FirstFrom(_, _)
FirstFrom(cs, k) ==
  IF k > Len(cs) THEN <<>>
  ELSE IF \E j \in 1..(k - 1) : cs[j].direct_url = cs[k].direct_url
       THEN FirstFrom(cs, k + 1)
       ELSE <<cs[k]>> \o FirstFrom(cs, k + 1)

FirstOccurrences(cs) == FirstFrom(cs, 1)

PhaseAThenPhaseB(cs) ==
  \A j, k \in 1..Len(cs) : (j < k /\ cs[j].reason = Found) => cs[k].reason = Found

(* C3: the list returned holds no two candidates with the same direct_url,
   and it is the Phase A candidates followed by the Phase B candidates with
   every later duplicate of an earlier direct_url removed, order kept. *)
C3_DedupFirstWins ==
  ppc = "returned" =>
    /\ \A j, k \in 1..Len(unique_candidates) :
         unique_candidates[j].direct_url = unique_candidates[k].direct_url => j = k
    /\ PhaseAThenPhaseB(candidates)
    /\ unique_candidates = FirstOccurrences(candidates)

(* candidates [A, B, A', C] with A' a duplicate of A: three are returned. *)
C3_Witness ==
  /\ ppc = "returned"
  /\ Len(candidates) = 4
  /\ candidates[3].direct_url = candidates[1].direct_url
  /\ candidates[2].direct_url # candidates[1].direct_url
  /\ candidates[4].direct_url \notin {candidates[1].direct_url, candidates[2].direct_url}
  /\ Len(unique_candidates) = 3

ProducedAs(u, reason) ==
  \E k \in 1..Len(candidates) : candidates[k].direct_url = u /\ candidates[k].reason = reason

(* C4: a url produced both as a direct hit and as a link of a result page is
   returned exactly once, and with reason "Matched by extension". *)
C4_DirectHitWins ==
  ppc = "returned" =>
    \A k \in 1..Len(candidates) :
      LET u == candidates[k].direct_url
      IN  (ProducedAs(u, Matched) /\ ProducedAs(u, Found)) =>
            /\ Cardinality({m \in 1..Len(unique_candidates) :
                              unique_candidates[m].direct_url = u}) = 1
            /\ \A m \in 1..Len(unique_candidates) :
                 unique_candidates[m].direct_url = u => unique_candidates[m].reason = Matched

(* The page (hit 1) links to the direct hit that follows it (hit 2). *)
C4_Witness ==
  /\ ppc = "returned"
  /\ Len(raw_results) = 2
  /\ raw_results[1].href = U_page
  /\ raw_results[2].href = U_a
  /\ ProducedAs(U_a, Matched)
  /\ \E k \in 1..Len(candidates) :
       /\ candidates[k].direct_url = U_a
       /\ candidates[k].reason = Found
       /\ candidates[k].source_page = U_page

(* C5: when the search adapter fails, the pipeline returns the empty list
   and does not raise. *)
C5_AdapterFailureIsZeroHits ==
  search = "failed" => (ppc = "returned" /\ unique_candidates = <<>>)

(* The candidates a run produces before deduplication, without their content
   types, from the hits and from what the pages answered; a page that failed
   counts as a page without links.  No probe takes part. *)
Provenance(c) ==
  [title |-> c.title, source_page |-> c.source_page,
   direct_url |-> c.direct_url, reason |-> c.reason]

IsFile(u) == _is_direct_file_url(u, preferred_extensions)

RECURSIVE ExpectedA(_)
ExpectedA(hits) ==
  IF hits = <<>> THEN <<>>
  ELSE LET r == Head(hits)
       IN  (IF IsFile(r.href)
            THEN << [title |-> r.title, source_page |-> r.href,
                     direct_url |-> r.href, reason |-> Matched] >>
            ELSE <<>>) \o ExpectedA(Tail(hits))

LinksOf(r, resp) == IF resp.kind = "ok" THEN absolute_links(r.href, resp.links) ELSE <<>>

RECURSIVE ExpectedB(_, _)
ExpectedB(hits, pages) ==
  IF hits = <<>> THEN <<>>
  ELSE LET r == Head(hits)
           files == SelectSeq(LinksOf(r, Head(pages)), IsFile)
       IN  [k \in 1..Len(files) |->
              [title |-> r.title, source_page |-> r.href,
               direct_url |-> files[k], reason |-> Found]]
             \o ExpectedB(Tail(hits), Tail(pages))

Expected == ExpectedA(raw_results) \o ExpectedB(raw_results, fetched)

UrlsOf(cs) == [k \in 1..Len(cs) |-> cs[k].direct_url]

(* C8: which urls are returned, and in which order, is decided by the hits
   and the pages alone, not by the probes; a candidate whose probe failed is
   kept where it stands, with the empty content type. *)
C8_ProbeAdvisory ==
  /\ Len(probe_failed) = Len(candidates)
  /\ \A k \in 1..Len(candidates) : probe_failed[k] => candidates[k].content_type = <<>>
  /\ ppc = "returned" =>
       /\ UrlsOf(unique_candidates) = UrlsOf(FirstOccurrences(Expected))
       /\ \A m \in 1..Len(unique_candidates) :
            \E k \in 1..Len(candidates) :
              /\ candidates[k] = unique_candidates[m]
              /\ \A j \in 1..(k - 1) : candidates[j].direct_url # candidates[k].direct_url

C8_Witness ==
  /\ ppc = "returned"
  /\ Len(unique_candidates) = 2
  /\ unique_candidates[1].content_type = <<>> /\ probe_failed[1]
  /\ unique_candidates[2].content_type # <<>>

PageFailed(resp) == resp.kind \in {"http_error", "timeout", "parse_error"}

(* C9: a run whose search succeeded never raises, and what it returns is
   what the hits and the pages that answered produce, a hit whose page
   failed counting as a hit whose page has no links. *)
C9_PerHitIsolation ==
  search = "ok" =>
    /\ ppc # "raised"
    /\ ppc \in {"dedup", "returned"} => Len(fetched) = Len(raw_results)
    /\ ppc = "returned" =>
         [k \in 1..Len(unique_candidates) |-> Provenance(unique_candidates[k])]
           = FirstOccurrences(Expected)

(* Of two page hits the first fails and the second yields candidates. *)
C9_Witness ==
  /\ ppc = "returned"
  /\ Len(raw_results) = 2
  /\ PageFailed(fetched[1]) /\ fetched[1].links # <<>>
  /\ fetched[2].kind = "ok"
  /\ Len(unique_candidates) = 2

(***************************************************************************)
(* Properties of the stream of a download.                                 *)
(***************************************************************************)
(* C15: when the GET answers a status >= 400 (the probe had answered a status
   below 400), the caller of the stream sees an HTTPException of that very
   status, no chunk was handed to it, and the session is closed, once. *)
C15_GetErrorStatus ==
  \A d \in Invocations :
    get_status[d] >= 400 =>
      /\ head_status[d] \in 1..399
      /\ raised[d] = HTTPException(get_status[d])
      /\ received[d] = <<>> /\ pulled[d] = 0
      /\ pc[d] = "Done"
      /\ session[d] = "closed" /\ closes[d] = 1

C15_Witness ==
  \E d \in Invocations :
    /\ head_status[d] = 200 /\ get_status[d] = 400
    /\ raised[d] = HTTPException(400) /\ session[d] = "closed"

(* C16: the chunks read from upstream never outnumber the chunks the caller
   has asked for, and while a request of the caller is being served they are
   one fewer; what the caller has received is the chunks read, which are a
   prefix of the body in upstream order; a stream that ends without an
   exception and without being dropped has delivered the whole body, the
   empty read after its last chunk having ended it. *)
Prefix(s, n) == SubSeq(s, 1, n)

C16_LazyStreaming ==
  \A d \in Invocations :
    /\ pulled[d] <= requested[d]
    /\ pc[d] \in {"AwaitGet", "AwaitRead"} => pulled[d] = requested[d] - 1
    /\ pc[d] = "AtYield" => pulled[d] = requested[d]
    /\ pulled[d] <= Len(body[d])
    /\ received[d] = Prefix(body[d], pulled[d])
    /\ (pc[d] = "Done" /\ started[d] /\ ~abandoned[d] /\ raised[d] = NoError) =>
          /\ received[d] = body[d]
          /\ requested[d] = Len(body[d]) + 1

C16_Witness ==
  \E d \in Invocations :
    /\ pc[d] = "AtYield" /\ requested[d] = 2 /\ pulled[d] = 2
    /\ received[d] = <<1, 2>>

(***************************************************************************)
(* Properties of the second loop of the pipeline.                          *)
(***************************************************************************)
(* C17: the second loop asks for the page of a hit exactly when the href of
   the hit is an http(s) url, once, whether or not the first loop made a
   candidate of the hit; the candidates it adds are, hit by hit and link by
   link in order, the links the extractor returned that the classifier
   accepts, each with reason "Found on page", the href of the hit as
   source_page and the link as direct_url. *)
FoundOnPage(cs) == SelectSeq(cs, LAMBDA c : c.reason = Found)

PageRequested(resp) == resp.kind # "skipped"

C17_PhaseBPerHit ==
  /\ ppc = "phaseA" => fetched = <<>>
  /\ ppc = "phaseB" => Len(fetched) = idx - 1
  /\ ppc \in {"dedup", "returned"} => Len(fetched) = Len(raw_results)
  /\ Len(fetched) <= Len(raw_results)
  /\ \A k \in 1..Len(fetched) : PageRequested(fetched[k]) <=> HttpScheme(raw_results[k].href)
  /\ LET found == FoundOnPage(candidates)
     IN  [k \in 1..Len(found) |-> Provenance(found[k])]
           = ExpectedB(Prefix(raw_results, Len(fetched)), fetched)

(* The page of a hit that the first loop made a candidate of is requested,
   and a link found on it becomes a candidate of that page. *)
C17_Witness ==
  /\ ppc = "returned"
  /\ \E k \in 1..Len(raw_results) :
       /\ raw_results[k].href = U_a
       /\ fetched[k].kind = "ok"
       /\ \E m \in 1..Len(candidates) :
            /\ candidates[m].reason = Found
            /\ candidates[m].source_page = U_a
            /\ candidates[m].direct_url # U_a
  /\ \E k \in 1..Len(raw_results) : ~PageRequested(fetched[k])

(***************************************************************************)
(* The run on the single hit https://h/a.pdf with the allowlist {"pdf"}.   *)
(***************************************************************************)
SingleHit ==
  /\ ppc = "returned"
  /\ preferred_extensions = << <<"pdf">> >>
  /\ Len(raw_results) = 1
  /\ raw_results[1].href = U_a

(* C13, as stated: the run on the single hit returns exactly one candidate,
   the hit itself with reason "Matched by extension", whatever the page of
   the hit answers in the second loop. *)
C13_SingleHitOnly ==
  SingleHit =>
    /\ Len(unique_candidates) = 1
    /\ unique_candidates[1].direct_url = U_a
    /\ unique_candidates[1].reason = Matched

(* The files the page of the single hit links to, other than the hit. *)
OtherFiles ==
  LET files == SelectSeq(LinksOf(raw_results[1], fetched[1]), IsFile)
  IN  {files[k] : k \in 1..Len(files)} \ {U_a}

(* C13, amended: the run on the single hit returns the hit itself first, with
   reason "Matched by extension", and no other candidate of that url; every
   further candidate is a file found on the page of the hit, once each, and
   the hit is the only candidate exactly when that page links to no other
   file. *)
C13_SingleHitFirst ==
  SingleHit =>
    /\ Len(unique_candidates) = 1 + Cardinality(OtherFiles)
    /\ unique_candidates[1].direct_url = U_a
    /\ unique_candidates[1].reason = Matched
    /\ unique_candidates[1].source_page = U_a
    /\ \A m \in 2..Len(unique_candidates) :
         /\ unique_candidates[m].direct_url \in OtherFiles
         /\ unique_candidates[m].reason = Found
         /\ unique_candidates[m].source_page = U_a

(* The page of the hit links back to the hit: one candidate is returned. *)
C13_Witness ==
  /\ SingleHit
  /\ fetched[1].kind = "ok"
  /\ U_a \in {LinksOf(raw_results[1], fetched[1])[k] :
                 k \in 1..Len(LinksOf(raw_results[1], fetched[1]))}
  /\ OtherFiles = {}
  /\ Len(unique_candidates) = 1

(***************************************************************************)
(* The order of the steps of a download.                                   *)
(***************************************************************************)
(* The steps invocation d can take. *)
StepOf(d) ==
  \/ Validate(d)
  \/ \E status \in Statuses, header \in ContentTypeHeaders : ProbeResponse(d, status, header)
  \/ \E e \in {NetworkError, CancelledError} : ProbeError(d, e)
  \/ Pull(d)
  \/ \E status \in Statuses, n \in 0..MaxChunks : GetResponse(d, status, n)
  \/ ReadComplete(d)
  \/ StreamError(d)
  \/ Abandon(d)
  \/ Finalize(d)

(* Closed: the download is over and holds no open session. *)
Closed(d) == pc[d] = "Done" /\ session[d] # "open"

(* C14: the HEAD probe and the GET are issued at most once each, the probe
   only by a download that has left Validating, the GET only after the probe
   has answered a status below 400; a download whose session is closed is
   over and takes no further step, so issues no request; and Closed is
   reachable from every state: a download always ends after finitely many
   steps, so this is to say that a download that is not Closed can still
   take a step. *)
C14_DownloadOrder ==
  \A d \in Invocations :
    /\ heads[d] <= 1 /\ gets[d] <= 1
    /\ pc[d] \in {"NotCalled", "Validating"} => heads[d] = 0 /\ gets[d] = 0
    /\ pc[d] = "ProbingMetadata" => heads[d] = 1 /\ gets[d] = 0 /\ head_status[d] = 0
    /\ gets[d] = 1 => heads[d] = 1 /\ head_status[d] \in 1..399
    /\ session[d] = "closed" => pc[d] = "Done" /\ ~ENABLED StepOf(d)
    /\ (Called(d) /\ ~Closed(d)) => ENABLED StepOf(d)

(***************************************************************************)
(* Properties of the link classifier.                                      *)
(***************************************************************************)
(* C11: a call of the classifier on the empty url, or on a url whose scheme
   is not http or https (an ftp url, a scheme-relative url, a relative url),
   returns false, whatever the allowlist and the rest of the url. *)
C11_SchemeRejected ==
  (c_done /\ ~HttpScheme(c_url)) => c_out = FALSE

(* An ftp url, a scheme-relative url, a relative url and the empty url, each
   otherwise ending in an allowlisted extension, have been rejected. *)
C11_Witness ==
  /\ c_done /\ ~c_out
  /\ c_exts = << <<"pdf">> >>
  /\ c_url \in { <<"ftp:", "/", "/", "h", "/", ".", "pdf">>,
                  <<"/", "/", "h", "/", ".", "pdf">>,
                  <<"/", "h", "/", ".", "pdf">> }

(* The path of an http(s) url: what follows the host, up to the query. *)
RECURSIVE FromSlash(_)
FromSlash(s) ==
  IF s = <<>> THEN <<>>
  ELSE IF Head(s) = "/" THEN s ELSE FromSlash(Tail(s))

PathOf(u) == FromSlash(split(SubSeq(u, 4, Len(u)), "?")[1])

(* An allowlist entry in normal form: lowercase, no leading dot. *)
NormalExt(e) == lower(lstrip(e, "."))

PathMatches(u, exts) ==
  \E k \in 1..Len(exts) : endswith(lower(PathOf(u)), <<".">> \o NormalExt(exts[k]))

(* C18: on an http(s) url the classifier returns true exactly when the path
   of the url, its query removed, ends case-insensitively in "." followed by
   an entry of the allowlist in normal form; a url without a path is no
   direct file and an upper-case entry counts as its lower-case form. *)
C18_PathSuffixOnly ==
  (c_done /\ valid_scheme(c_url)) => (c_out <=> PathMatches(c_url, c_exts))

(***************************************************************************)
(* Properties of the page link extractor.                                  *)
(***************************************************************************)
(* C12: a call of the extractor ends without an exception, and when the
   fetch of the page timed out, could not connect, could not be parsed or
   answered an error status, the list it returns is empty. *)
C12_ExtractorNeverRaises ==
  e_done =>
    /\ e_out.raised = NoError
    /\ e_resp.kind # "ok" => e_out.links = <<>>

(* A fetch that could not connect, of a page that holds links. *)
C12_Witness ==
  /\ e_done
  /\ e_resp.kind = "connect_error" /\ e_resp.links = <<U_a, U_d>>
  /\ e_out = [raised |-> NoError, links |-> <<>>]

(***************************************************************************)
(* Properties of the ranking step.                                         *)
(***************************************************************************)
RequiredFields == {"title", "source_page", "direct_url", "reason", "content_type"}

Unusable(reply) == reply.kind # "list" \/ reply.ranked = <<>>

(* C19: every record the ranking step returns has the fields of a candidate
   and a direct_url of the list it was given; when no model is configured or
   its answer cannot be used, what is returned is a prefix of that list. *)
C19_NoInventedCandidates ==
  r_done =>
    /\ \A k \in 1..Len(r_out) :
         /\ RequiredFields \subseteq DOMAIN r_out[k]
         /\ r_out[k].direct_url \in {r_in[j].direct_url : j \in 1..Len(r_in)}
    /\ Unusable(r_llm) => r_out = Prefix(r_in, Len(r_out))

(***************************************************************************)
(* Properties of concurrent downloads.                                     *)
(***************************************************************************)
(* All that invocation d holds. *)
Own(d) ==
  <<url[d], pc[d], session[d], closes[d], heads[d], gets[d], requested[d],
    pulled[d], received[d], body[d], raised[d], content_type[d],
    disposition_name[d], started[d], abandoned[d], head_status[d], get_status[d]>>

(* C20: every step is the step of one invocation, and it leaves the session
   of every other invocation, and all else the other holds, as it was:
   closing, failing or cancelling one download changes nothing of another;
   and a request is only ever issued by an invocation on a session it has
   opened itself. *)
C20_SessionOwnership ==
  /\ [][\A d \in Invocations : \A e \in Invocations \ {d} :
          pc'[e] # pc[e] => Own(d)' = Own(d)]_vars
  /\ [][\A d \in Invocations :
          session'[d] # session[d] => pc'[d] # pc[d]]_vars
  /\ [](\A d \in Invocations : heads[d] + gets[d] > 0 => session[d] # "none")

(* One download has failed and closed its session while another is in the
   middle of its stream, its session open. *)
C20_Witness ==
  \E d \in Invocations : \E e \in Invocations \ {d} :
    /\ pc[d] = "Done" /\ raised[d] = NetworkError /\ session[d] = "closed"
    /\ pc[e] = "AtYield" /\ session[e] = "open" /\ received[e] # <<>>

====
